---- MODULE Spec2Model ----
(***************************************************************************)
(* Form builder backend (server/index.js): an express application over a   *)
(* sqlite3 connection with two tables, forms and responses.  A route       *)
(* handler is one step per store statement it issues: the statement runs   *)
(* and its callback receives the result.  The code that runs when the      *)
(* request arrives (validation, uuid, issuing the first statement) touches *)
(* no shared state and is part of the handler's first step.  Statements of *)
(* different requests interleave in every order.                           *)
(***************************************************************************)
EXTENDS Integers, Sequences, FiniteSets, TLC

(***************************************************************************)
(* Bounds of the model.                                                    *)
(***************************************************************************)
MaxUuid == 3        \* uuids generated in a run (forms and responses)
MaxTime == 1        \* last value of the clock (seconds)
MaxStatForms == 3   \* forms in a store drawn by InitStats
MaxStatResponses == 5 \* responses in a store drawn by InitStats

MaxInFlight == 1    \* requests that wait for a further statement at a time
MaxWriters == 2     \* PUT requests in flight together under SpecUpdate
MaxFields == 2      \* fields a FormBuilder holds before Add Field is left alone
MaxClock == 1       \* last value of Date.now() in the browser
MaxStatRequests == 2 \* stats requests in flight together under SpecStatsFaults
MaxFetches == 2     \* calls of fetchData of a hook after which no event calls it again
MaxExecutions == 2  \* executions of the export action

(***************************************************************************)
(* JavaScript values, tagged by their type.  An object is the sequence of  *)
(* its <<key, value>> properties in insertion order.                       *)
(***************************************************************************)
Undef == [t |-> "undefined"]
Null == [t |-> "null"]
Str(s) == [t |-> "string", v |-> s]
Num(n) == [t |-> "number", v |-> n]
Bool(b) == [t |-> "boolean", v |-> b]
Arr(seq) == [t |-> "array", v |-> seq]
Obj(props) == [t |-> "object", v |-> props]

\* ToBoolean: what `!x` and `x || y` test
Truthy(x) ==
  CASE x.t = "undefined" -> FALSE
    [] x.t = "null" -> FALSE
    [] x.t = "string" -> x.v # ""
    [] x.t = "number" -> x.v # 0
    [] x.t = "boolean" -> x.v
    [] OTHER -> TRUE

\* x || y
Or(x, y) == IF Truthy(x) THEN x ELSE y

\* Array.isArray(x)
IsArray(x) == x.t = "array"

\* typeof x === 'object'
TypeofObject(x) == x.t \in {"object", "array", "null"}

\* obj[key]: the property's value, undefined when the object has none
Get(obj, key) ==
  IF obj.t # "object" THEN Undef
  ELSE LET idx == {i \in 1..Len(obj.v) : obj.v[i][1] = key}
       IN IF idx = {} THEN Undef
          ELSE obj.v[CHOOSE i \in idx : \A j \in idx : j <= i][2]

(***************************************************************************)
(* JSON text is a sequence of tokens: punctuation, string literals,        *)
(* numbers and the literals true, false and null.                          *)
(***************************************************************************)
P(c) == [k |-> "punct", s |-> c]
IsP(tk, c) == tk.k = "punct" /\ tk.s = c

RECURSIVE JSONstringify(_)
RECURSIVE StringifyElements(_, _)
RECURSIVE StringifyMembers(_, _, _)

\* the elements of an array from index i on; undefined is written as null
StringifyElements(a, i) ==
  IF i > Len(a) THEN <<>>
  ELSE (IF i > 1 THEN <<P(",")>> ELSE <<>>)
       \o (IF a[i].t = "undefined" THEN JSONstringify(Null) ELSE JSONstringify(a[i]))
       \o StringifyElements(a, i + 1)

\* the properties of an object from index i on; undefined values are omitted
StringifyMembers(m, i, first) ==
  IF i > Len(m) THEN <<>>
  ELSE IF m[i][2].t = "undefined" THEN StringifyMembers(m, i + 1, first)
  ELSE (IF first THEN <<>> ELSE <<P(",")>>)
       \o <<[k |-> "str", s |-> m[i][1]], P(":")>>
       \o JSONstringify(m[i][2])
       \o StringifyMembers(m, i + 1, FALSE)

JSONstringify(x) ==
  CASE x.t = "string" -> <<[k |-> "str", s |-> x.v]>>
    [] x.t = "number" -> <<[k |-> "num", s |-> x.v]>>
    [] x.t = "boolean" -> <<[k |-> "lit", s |-> IF x.v THEN "true" ELSE "false"]>>
    [] x.t = "null" -> <<[k |-> "lit", s |-> "null"]>>
    [] x.t = "array" -> <<P("[")>> \o StringifyElements(x.v, 1) \o <<P("]")>>
    [] x.t = "object" -> <<P("{")>> \o StringifyMembers(x.v, 1, TRUE) \o <<P("}")>>

RECURSIVE ParseValue(_, _)
RECURSIVE ParseElements(_, _, _)
RECURSIVE ParseMembers(_, _, _)

\* ParseElements that collects the elements in reverse
ParseElementsReversed(s, i, acc) ==
  LET r == ParseValue(s, i)
      acc2 == <<r.val>> \o acc
  IN IF IsP(s[r.next], ",") THEN ParseElements(s, r.next + 1, acc2)
     ELSE [val |-> Arr(acc2), next |-> r.next + 1]

\* the elements of an array, s[i] being the first token of an element
ParseElements(s, i, acc) ==
  LET r == ParseValue(s, i)
      acc2 == Append(acc, r.val)
  IN IF IsP(s[r.next], ",") THEN ParseElements(s, r.next + 1, acc2)
     ELSE [val |-> Arr(acc2), next |-> r.next + 1]

\* the properties of an object, s[i] being the key of a property
ParseMembers(s, i, acc) ==
  LET r == ParseValue(s, i + 2)
      acc2 == Append(acc, <<s[i].s, r.val>>)
  IN IF IsP(s[r.next], ",") THEN ParseMembers(s, r.next + 1, acc2)
     ELSE [val |-> Obj(acc2), next |-> r.next + 1]

\* the value that starts at token i, and the index of the token after it
ParseValue(s, i) ==
  LET tk == s[i] IN
  CASE tk.k = "str" -> [val |-> Str(tk.s), next |-> i + 1]
    [] tk.k = "num" -> [val |-> Num(tk.s), next |-> i + 1]
    [] tk.k = "lit" ->
         [val |-> (IF tk.s = "null" THEN Null ELSE Bool(tk.s = "true")), next |-> i + 1]
    [] IsP(tk, "[") ->
         IF IsP(s[i + 1], "]") THEN [val |-> Arr(<<>>), next |-> i + 2]
         ELSE ParseElements(s, i + 1, <<>>)
    [] IsP(tk, "{") ->
         IF IsP(s[i + 1], "}") THEN [val |-> Obj(<<>>), next |-> i + 2]
         ELSE ParseMembers(s, i + 1, <<>>)

JSONparse(text) == ParseValue(text, 1).val


(***************************************************************************)
(* Request bodies the clients send.                                        *)
(***************************************************************************)
FieldName ==
  Obj(<< <<"id", Str("name")>>, <<"type", Str("text")>>, <<"label", Str("Name")>>,
         <<"required", Bool(TRUE)>>, <<"placeholder", Str("")>> >>)
FieldTags ==
  Obj(<< <<"id", Str("tags")>>, <<"type", Str("checkbox")>>, <<"label", Str("Tags")>>,
         <<"required", Bool(FALSE)>>, <<"options", Arr(<<Str("a"), Str("b")>>)>> >>)

\* bodies that pass the validation of POST and PUT /api/forms
GoodFormBodies ==
  { [title |-> Str("A"), description |-> Undef, fields |-> Arr(<<>>)],
    [title |-> Str("B"), description |-> Str("d"), fields |-> Arr(<<FieldName, FieldTags>>)] }

\* bodies without a title, or with fields that are no array
BadFormBodies ==
  { [title |-> Undef, description |-> Str("d"), fields |-> Arr(<<FieldName, FieldTags>>)],
    [title |-> Str(""), description |-> Str("d"), fields |-> Arr(<<FieldName, FieldTags>>)],
    [title |-> Str(""), description |-> Undef, fields |-> Arr(<<>>)],
    [title |-> Str("A"), description |-> Str("d"), fields |-> Undef],
    [title |-> Str("A"), description |-> Undef, fields |-> Str("x")] }

FormBodies == GoodFormBodies \cup BadFormBodies

AnswersAlice ==
  Obj(<< <<"name", Str("Alice")>>, <<"tags", Arr(<<Str("a"), Str("b")>>)>> >>)
AnswersOther == Obj(<< <<"zzz", Str("q")>> >>)

ResponseBodies ==
  { [answers |-> AnswersAlice, submitterName |-> Str("Al"), submitterEmail |-> Str("al@x")],
    [answers |-> AnswersOther, submitterName |-> Undef, submitterEmail |-> Undef],
    [answers |-> Undef, submitterName |-> Str("Al"), submitterEmail |-> Undef],
    [answers |-> Str("x"), submitterName |-> Undef, submitterEmail |-> Undef] }

\* request bodies with values of every JSON type where the handlers expect an
\* array of fields and a mapping of answers
AnswersFalsy == Obj(<< <<"name", Num(0)>>, <<"tags", Bool(FALSE)>> >>)

ValueFormBodies ==
  { [title |-> Str("B"), description |-> Str("d"), fields |-> Arr(<<FieldName, FieldTags>>)],
    [title |-> Str("N"), description |-> Undef, fields |-> Arr(<<Null>>)] }

ValueAnswers ==
  { Undef, Null, Str("x"), Num(5), Bool(TRUE), Arr(<<Str("a")>>),
    AnswersAlice, AnswersFalsy }

ValueResponseBodies ==
  { [answers |-> a, submitterName |-> Undef, submitterEmail |-> Undef] : a \in ValueAnswers }

(***************************************************************************)
(* State.                                                                  *)
(***************************************************************************)
VARIABLES
  forms,        \* table forms: its rows in rowid order
  responses,    \* table responses: its rows in rowid order
  foreignKeys,  \* whether the connection enforces foreign keys
  now,          \* the clock, in seconds
  nextUuid,     \* the next uuid that uuidv4() returns
  reqs,         \* the requests that wait for a further statement, by slot
  res,          \* the HTTP response the last step sent, if it sent one
  crashed,      \* the process died of an uncaught exception
  builder,      \* the state of the FormBuilder component in the browser
  viewer,       \* the state of the FormViewer component
  app,          \* the state of the App component
  formList,     \* the state of the FormList component
  api           \* the state of the useApi hooks, by the data they load

storeVars == <<forms, responses, foreignKeys>>
serverVars == <<forms, responses, foreignKeys, now, nextUuid, reqs, res, crashed>>
vars ==
  <<forms, responses, foreignKeys, now, nextUuid, reqs, res, crashed,
    builder, viewer, app, formList, api>>

\* no FormBuilder is mounted
Unmounted == [mounted |-> FALSE]

\* no useApi hook in use
NoHooks == [h \in {} |-> Null]

Slots == 1..MaxInFlight
Idle == [op |-> "idle"]
NoResponse == [op |-> "none", id |-> 0, status |-> 0, body |-> [none |-> TRUE]]

\* a request that needs a further statement takes the first free slot
FreeSlot(c) == reqs[c] = Idle /\ \A d \in Slots : d < c => reqs[d] # Idle
\* the event loop runs the next callback once the response of the last one
\* has been written
CanServe == ~crashed /\ res = NoResponse

\* ids a request can name: 0 matches no uuid, the others were generated
Ids == 0..(nextUuid - 1)

\* CURRENT_TIMESTAMP, and new Date().toISOString()
SqlTime(t) == [fmt |-> "sql", sec |-> t]
IsoTime(t) == [fmt |-> "iso", sec |-> t]

(***************************************************************************)
(* Queries.                                                                *)
(***************************************************************************)
\* SELECT * FROM forms WHERE id = ?  (the set of matching row positions)
FormIdx(id) == {i \in 1..Len(forms) : forms[i].id = id}
FormExists(id) == FormIdx(id) # {}
FormRow(id) == forms[CHOOSE i \in FormIdx(id) : TRUE]

\* db.get('SELECT * FROM forms WHERE id = ?'): the row, undefined without one
SelectForm(id) == IF FormExists(id) THEN FormRow(id) ELSE Undef

\* SelectFormId without its WHERE clause: the first row of the table
SelectFormIdAny(id) == IF forms # <<>> THEN [id |-> forms[1].id] ELSE Undef

\* db.get('SELECT id FROM forms WHERE id = ?')
SelectFormId(id) == IF FormExists(id) THEN [id |-> FormRow(id).id] ELSE Undef

\* Changes that reports a row whether or not one matched
ChangesOne(id) == 1

\* this.changes of an UPDATE or DELETE of forms WHERE id = ?
Changes(id) == Cardinality(FormIdx(id))

\* rows sorted by a timestamp column, newest first; the sorter keeps rows
\* with equal keys in scan order
RECURSIVE InsertDesc(_, _, _)
\* InsertDesc that puts a row before the rows with the same key
InsertDescBeforeEqual(sorted, row, col) ==
  IF sorted = <<>> THEN <<row>>
  ELSE IF row[col].sec >= Head(sorted)[col].sec THEN <<row>> \o sorted
  ELSE <<Head(sorted)>> \o InsertDesc(Tail(sorted), row, col)

InsertDesc(sorted, row, col) ==
  IF sorted = <<>> THEN <<row>>
  ELSE IF row[col].sec > Head(sorted)[col].sec THEN <<row>> \o sorted
  ELSE <<Head(sorted)>> \o InsertDesc(Tail(sorted), row, col)

RECURSIVE OrderByDesc(_, _)
OrderByDesc(rows, col) ==
  IF rows = <<>> THEN <<>>
  ELSE InsertDesc(OrderByDesc(SubSeq(rows, 1, Len(rows) - 1), col), rows[Len(rows)], col)

\* SELECT * FROM responses WHERE form_id = ? ORDER BY submitted_at DESC
ResponsesOf(id) ==
  OrderByDesc(SelectSeq(responses, LAMBDA r : r.form_id = id), "submitted_at")

\* SELECT r.*, f.title as form_title FROM responses r JOIN forms f ON r.form_id = f.id
\* ORDER BY r.submitted_at DESC
JoinedResponses ==
  LET joined == SelectSeq(responses, LAMBDA r : FormExists(r.form_id))
      withTitle == [i \in 1..Len(joined) |->
                      [id |-> joined[i].id, form_id |-> joined[i].form_id,
                       answers |-> joined[i].answers,
                       submitter_name |-> joined[i].submitter_name,
                       submitter_email |-> joined[i].submitter_email,
                       submitted_at |-> joined[i].submitted_at,
                       form_title |-> FormRow(joined[i].form_id).title]]
  IN OrderByDesc(withTitle, "submitted_at")

(***************************************************************************)
(* Row to JSON mappings of the handlers.                                   *)
(***************************************************************************)
\* { ...row, fields: JSON.parse(row.fields), createdAt: row.created_at }
FormJson(row) ==
  [id |-> row.id, title |-> row.title, description |-> row.description,
   fields |-> JSONparse(row.fields), created_at |-> row.created_at,
   createdAt |-> row.created_at]

ResponseJson(row) ==
  [id |-> row.id, formId |-> row.form_id, answers |-> JSONparse(row.answers),
   submitterName |-> row.submitter_name, submitterEmail |-> row.submitter_email,
   submittedAt |-> row.submitted_at]

JoinedResponseJson(row) ==
  [id |-> row.id, formId |-> row.form_id, formTitle |-> row.form_title,
   answers |-> JSONparse(row.answers),
   submitterName |-> row.submitter_name, submitterEmail |-> row.submitter_email,
   submittedAt |-> row.submitted_at]

MapSeq(s, F(_)) == [i \in 1..Len(s) |-> F(s[i])]

\* what the handlers answer in the current state
listForms == MapSeq(OrderByDesc(forms, "created_at"), FormJson)
getForm(id) == FormJson(FormRow(id))
listResponsesForForm(id) == MapSeq(ResponsesOf(id), ResponseJson)
listAllResponses == MapSeq(JoinedResponses, JoinedResponseJson)

(***************************************************************************)
(* Sending a response.                                                     *)
(***************************************************************************)
Reply(op, id, status, body) ==
  res' = [op |-> op, id |-> id, status |-> status, body |-> body]

\* handleError(res, error, message)
handleError(op, id, message) == Reply(op, id, 500, [error |-> message])

\* the step sends nothing
Silent == res' = NoResponse

Finish(c) == reqs' = [reqs EXCEPT ![c] = Idle]

Init ==
  /\ forms = <<>>
  /\ responses = <<>>
  /\ foreignKeys \in BOOLEAN
  /\ now = 0
  /\ nextUuid = 1
  /\ reqs = [c \in Slots |-> Idle]
  /\ res = NoResponse
  /\ crashed = FALSE
  /\ builder = Unmounted
  /\ viewer = Unmounted /\ app = Unmounted /\ formList = Unmounted /\ api = NoHooks

Tick ==
  /\ CanServe
  /\ now < MaxTime
  /\ now' = now + 1
  /\ Silent
  /\ UNCHANGED <<storeVars, nextUuid, reqs, crashed, builder, viewer, app, formList, api>>

\* the response has been written to the connection
Flush ==
  /\ res # NoResponse
  /\ res' = NoResponse
  /\ UNCHANGED <<storeVars, now, nextUuid, reqs, crashed, builder, viewer, app, formList, api>>

(***************************************************************************)
(* GET /api/forms, GET /api/forms/:id                                      *)
(***************************************************************************)
GetForms(err) ==
  /\ CanServe
  /\ IF err THEN handleError("listForms", 0, "Failed to fetch forms")
     ELSE Reply("listForms", 0, 200, [items |-> listForms])
  /\ UNCHANGED <<storeVars, now, nextUuid, reqs, crashed, builder, viewer, app, formList, api>>

GetForm(id, err) ==
  /\ CanServe
  /\ IF err THEN handleError("getForm", id, "Failed to fetch form")
     ELSE IF SelectForm(id) = Undef   \* !row
     THEN Reply("getForm", id, 404, [error |-> "Form not found"])
     ELSE Reply("getForm", id, 200, FormJson(SelectForm(id)))
  /\ UNCHANGED <<storeVars, now, nextUuid, reqs, crashed, builder, viewer, app, formList, api>>

(***************************************************************************)
(* POST /api/forms                                                         *)
(***************************************************************************)
\* InvalidForm without the test of the title
InvalidFormNoTitle(body) == ~Truthy(body.fields) \/ ~IsArray(body.fields)

\* !title || !fields || !Array.isArray(fields)
InvalidForm(body) ==
  ~Truthy(body.title) \/ ~Truthy(body.fields) \/ ~IsArray(body.fields)

\* INSERT INTO forms (id, title, description, fields) VALUES (?, ?, ?, ?)
\* with [id, title, description || '', fieldsJson]
\* created_at is the column's default, CURRENT_TIMESTAMP
NewFormRow(id, body, t) ==
  [id |-> id, title |-> body.title,
   description |-> Or(body.description, Str("")),
   fields |-> JSONstringify(body.fields),
   created_at |-> SqlTime(t)]

InsertForm(id, body) == Append(forms, NewFormRow(id, body, now))

PostForms(body, err) ==
  /\ CanServe
  /\ IF InvalidForm(body)
     THEN /\ Reply("createForm", 0, 400, [error |-> "Title and fields are required"])
          /\ UNCHANGED <<nextUuid, forms>>
     ELSE /\ nextUuid <= MaxUuid
          /\ nextUuid' = nextUuid + 1
          /\ IF err
             THEN /\ handleError("createForm", nextUuid, "Failed to create form")
                  /\ UNCHANGED forms
             ELSE /\ forms' = InsertForm(nextUuid, body)
                  /\ Reply("createForm", nextUuid, 201,
                           [id |-> nextUuid, title |-> body.title,
                            description |-> Or(body.description, Str("")),
                            fields |-> body.fields, createdAt |-> IsoTime(now)])
  /\ UNCHANGED <<responses, foreignKeys, now, reqs, crashed, builder, viewer, app, formList, api>>

(***************************************************************************)
(* PUT /api/forms/:id                                                      *)
(***************************************************************************)
\* UpdateForm without its WHERE clause
UpdateFormAll(id, body) ==
  [i \in 1..Len(forms) |->
     [forms[i] EXCEPT !.title = body.title,
                      !.description = Or(body.description, Str("")),
                      !.fields = JSONstringify(body.fields)]]

\* UpdateForm as a replacement of the row, which takes the column defaults anew
UpdateFormReplace(id, body) ==
  [i \in 1..Len(forms) |->
     IF forms[i].id = id THEN NewFormRow(id, body, now) ELSE forms[i]]

\* UpdateForm that keeps the stored description when the request has none
UpdateFormKeepDescription(id, body) ==
  [i \in 1..Len(forms) |->
     IF forms[i].id = id
     THEN [forms[i] EXCEPT !.title = body.title,
                           !.description = Or(body.description, forms[i].description),
                           !.fields = JSONstringify(body.fields)]
     ELSE forms[i]]

\* UPDATE forms SET title = ?, description = ?, fields = ? WHERE id = ?
\* with [title, description || '', fieldsJson, id]
UpdateForm(id, body) ==
  [i \in 1..Len(forms) |->
     IF forms[i].id = id
     THEN [forms[i] EXCEPT !.title = body.title,
                           !.description = Or(body.description, Str("")),
                           !.fields = JSONstringify(body.fields)]
     ELSE forms[i]]

\* the UPDATE and its callback
PutFormRun(id, body, err) ==
  IF err
  THEN /\ handleError("updateForm", id, "Failed to update form")
       /\ UNCHANGED forms
  ELSE /\ forms' = UpdateForm(id, body)
       /\ IF Changes(id) = 0
          THEN Reply("updateForm", id, 404, [error |-> "Form not found"])
          ELSE Reply("updateForm", id, 200,
                     [id |-> id, title |-> body.title,
                      description |-> Or(body.description, Str("")),
                      fields |-> body.fields])

PutForm(id, body, err) ==
  /\ CanServe
  /\ IF InvalidForm(body)
     THEN /\ Reply("updateForm", id, 400, [error |-> "Title and fields are required"])
          /\ UNCHANGED forms
     ELSE PutFormRun(id, body, err)
  /\ UNCHANGED <<responses, foreignKeys, now, nextUuid, reqs, crashed, builder, viewer, app, formList, api>>

\* the same handler with the request in flight between its arrival, when the
\* UPDATE is issued, and the UPDATE
PutFormIssue(w, id, body) ==
  /\ CanServe /\ reqs[w] = Idle
  /\ IF InvalidForm(body)
     THEN /\ Reply("updateForm", id, 400, [error |-> "Title and fields are required"])
          /\ UNCHANGED reqs
     ELSE /\ reqs' = [reqs EXCEPT ![w] = [op |-> "updateForm", id |-> id, body |-> body]]
          /\ Silent
  /\ UNCHANGED <<storeVars, now, nextUuid, crashed, builder, viewer, app, formList, api>>

PutFormApply(w, err) ==
  /\ CanServe /\ reqs[w].op = "updateForm"
  /\ PutFormRun(reqs[w].id, reqs[w].body, err)
  /\ Finish(w)
  /\ UNCHANGED <<responses, foreignKeys, now, nextUuid, crashed, builder, viewer, app, formList, api>>

(***************************************************************************)
(* DELETE /api/forms/:id                                                   *)
(***************************************************************************)
\* CascadeDelete that removes the responses of every form
CascadeDeleteAll(id) ==
  IF foreignKeys /\ FormExists(id) THEN <<>> ELSE responses

\* what DELETE FROM forms WHERE id = ? leaves in responses: ON DELETE CASCADE
\* acts only on a connection that enforces foreign keys
CascadeDelete(id) ==
  IF foreignKeys /\ FormExists(id)
  THEN SelectSeq(responses, LAMBDA r : r.form_id # id)
  ELSE responses

DeleteForm(id, err) ==
  /\ CanServe
  /\ IF err
     THEN /\ handleError("deleteForm", id, "Failed to delete form")
          /\ UNCHANGED <<forms, responses>>
     ELSE /\ forms' = SelectSeq(forms, LAMBDA f : f.id # id)
          /\ responses' = CascadeDelete(id)
          /\ IF Changes(id) = 0
             THEN Reply("deleteForm", id, 404, [error |-> "Form not found"])
             ELSE Reply("deleteForm", id, 200, [message |-> "Form deleted successfully"])
  /\ UNCHANGED <<foreignKeys, now, nextUuid, reqs, crashed, builder, viewer, app, formList, api>>

(***************************************************************************)
(* GET /api/forms/:id/responses, GET /api/responses                        *)
(***************************************************************************)
GetFormResponses(id, err) ==
  /\ CanServe
  /\ IF err THEN handleError("listResponsesForForm", id, "Failed to fetch responses")
     ELSE Reply("listResponsesForForm", id, 200, [items |-> listResponsesForForm(id)])
  /\ UNCHANGED <<storeVars, now, nextUuid, reqs, crashed, builder, viewer, app, formList, api>>

GetResponses(err) ==
  /\ CanServe
  /\ IF err THEN handleError("listAllResponses", 0, "Failed to fetch responses")
     ELSE Reply("listAllResponses", 0, 200, [items |-> listAllResponses])
  /\ UNCHANGED <<storeVars, now, nextUuid, reqs, crashed, builder, viewer, app, formList, api>>

(***************************************************************************)
(* POST /api/forms/:id/responses: the existence check, then the INSERT     *)
(* issued by its callback.                                                 *)
(***************************************************************************)
\* InvalidAnswers that also asks for an answer to the field "name"
InvalidAnswersNamed(answers) ==
  ~Truthy(answers) \/ ~TypeofObject(answers) \/ Get(answers, "name") = Undef

\* !answers || typeof answers !== 'object'
InvalidAnswers(answers) == ~Truthy(answers) \/ ~TypeofObject(answers)

\* validation and callback of SELECT id FROM forms WHERE id = ?
PostResponse(c, id, body, err) ==
  /\ CanServe
  /\ IF InvalidAnswers(body.answers)
     THEN /\ Reply("submitResponse", id, 400, [error |-> "Answers are required"])
          /\ UNCHANGED <<reqs, nextUuid>>
     ELSE IF err
     THEN /\ handleError("submitResponse", id, "Failed to verify form")
          /\ UNCHANGED <<reqs, nextUuid>>
     ELSE IF SelectFormId(id) = Undef   \* !row
     THEN /\ Reply("submitResponse", id, 404, [error |-> "Form not found"])
          /\ UNCHANGED <<reqs, nextUuid>>
     ELSE /\ FreeSlot(c)
          /\ nextUuid <= MaxUuid
          /\ reqs' = [reqs EXCEPT ![c] =
                        [op |-> "submitResponse", formId |-> id,
                         answers |-> body.answers, submitterName |-> body.submitterName,
                         submitterEmail |-> body.submitterEmail,
                         responseId |-> nextUuid,
                         answersJson |-> JSONstringify(body.answers)]]
          /\ nextUuid' = nextUuid + 1
          /\ Silent
  /\ UNCHANGED <<storeVars, now, crashed, builder, viewer, app, formList, api>>

\* INSERT INTO responses (id, form_id, answers, submitter_name, submitter_email)
\* with [responseId, formId, answersJson, submitterName || null, submitterEmail || null]
\* submitted_at is the column's default, CURRENT_TIMESTAMP
NewResponseRow(r, t) ==
  [id |-> r.responseId, form_id |-> r.formId, answers |-> r.answersJson,
   submitter_name |-> Or(r.submitterName, Null),
   submitter_email |-> Or(r.submitterEmail, Null),
   submitted_at |-> SqlTime(t)]

InsertResponse(r) == Append(responses, NewResponseRow(r, now))

\* the INSERT violates the foreign key of responses.form_id
ForeignKeyViolation(formId) == foreignKeys /\ ~FormExists(formId)

PostResponseRun(c, err) ==
  /\ CanServe /\ reqs[c].op = "submitResponse"
  /\ LET r == reqs[c] IN
     IF err \/ ForeignKeyViolation(r.formId)
     THEN /\ handleError("submitResponse", r.formId, "Failed to submit response")
          /\ UNCHANGED responses
     ELSE /\ responses' = InsertResponse(r)
          /\ Reply("submitResponse", r.formId, 201,
                   [id |-> r.responseId, formId |-> r.formId, answers |-> r.answers,
                    submitterName |-> r.submitterName,
                    submitterEmail |-> r.submitterEmail,
                    submittedAt |-> IsoTime(now)])
  /\ Finish(c)
  /\ UNCHANGED <<forms, foreignKeys, now, nextUuid, crashed, builder, viewer, app, formList, api>>

(***************************************************************************)
(* GET /api/dashboard/stats: three queries issued together; each callback  *)
(* stores its result and calls checkComplete.                              *)
(***************************************************************************)
RecentLimit == 5
Queries == {"totalForms", "totalResponses", "recentResponses"}

\* toFixed1 that cuts the digits after the first decimal instead of rounding
toFixed1Truncated(a, b) ==
  LET n == (10 * a) \div b
  IN ToString(n \div 10) \o "." \o ToString(n % 10)

\* Number.prototype.toFixed(1) of the quotient a / b (a >= 0, b > 0): the
\* integer n with n / 10 nearest to a / b, the larger one of two; the digits
\* of n with a point before the last one.  (For b < 20 a quotient that lies
\* halfway has denominator 4, so the double holds it exactly.)
toFixed1(a, b) ==
  LET n == (20 * a + b) \div (2 * b)
  IN ToString(n \div 10) \o "." \o ToString(n % 10)

\* avgResponsesPerForm with the operands of the division exchanged
avgFormsPerResponse(totalForms, totalResponses) ==
  IF totalResponses > 0 THEN toFixed1(totalForms, totalResponses) ELSE "0"

\* stats.totalForms > 0 ? (stats.totalResponses / stats.totalForms).toFixed(1) : '0'
avgResponsesPerForm(totalForms, totalResponses) ==
  IF totalForms > 0 THEN toFixed1(totalResponses, totalForms) ELSE "0"

\* the result of one of the three queries
QueryResult(q) ==
  CASE q = "totalForms" -> Len(forms)
    [] q = "totalResponses" -> Len(responses)
    [] q = "recentResponses" ->
         MapSeq(SubSeq(JoinedResponses, 1,
                       IF Len(JoinedResponses) < RecentLimit
                       THEN Len(JoinedResponses) ELSE RecentLimit),
                JoinedResponseJson)

GetStats(c) ==
  /\ CanServe /\ FreeSlot(c)
  /\ reqs' = [reqs EXCEPT ![c] =
                [op |-> "stats", pending |-> Queries, completed |-> 0, sent |-> 0,
                 stats |-> [q \in {} |-> 0]]]
  /\ Silent
  /\ UNCHANGED <<storeVars, now, nextUuid, crashed, builder, viewer, app, formList, api>>

GetStatsQuery(c, q, err) ==
  /\ CanServe /\ reqs[c].op = "stats" /\ q \in reqs[c].pending
  /\ LET r == reqs[c]
         left == r.pending \ {q}
         stats == [k \in DOMAIN r.stats \cup {q} |->
                     IF k = q THEN QueryResult(q) ELSE r.stats[k]]
         after(sent) ==
           IF left = {} THEN Idle
           ELSE [r EXCEPT !.pending = left, !.sent = sent]
     IN
     IF err
     THEN \* handleError; a second write to the same response throws
          IF r.sent > 0
          THEN /\ crashed' = TRUE
               /\ reqs' = [reqs EXCEPT ![c] = after(r.sent)]
               /\ Silent
          ELSE /\ handleError("stats", 0, "Internal server error")
               /\ reqs' = [reqs EXCEPT ![c] = after(r.sent + 1)]
               /\ UNCHANGED crashed
     ELSE \* checkComplete
          IF r.completed + 1 = Cardinality(Queries)
          THEN /\ Reply("stats", 0, 200,
                        [totalForms |-> stats["totalForms"],
                         totalResponses |-> stats["totalResponses"],
                         recentResponses |-> stats["recentResponses"],
                         avgResponsesPerForm |->
                           avgResponsesPerForm(stats["totalForms"], stats["totalResponses"])])
               /\ reqs' = [reqs EXCEPT ![c] = after(r.sent + 1)]
               /\ UNCHANGED crashed
          ELSE /\ reqs' = [reqs EXCEPT ![c] =
                             IF left = {} THEN Idle
                             ELSE [r EXCEPT !.pending = left, !.stats = stats,
                                            !.completed = r.completed + 1]]
               /\ Silent
               /\ UNCHANGED crashed
  /\ UNCHANGED <<storeVars, now, nextUuid, builder, viewer, app, formList, api>>

(***************************************************************************)
(* GET /api/forms/:id/export: the form query, then the responses query in  *)
(* its callback.                                                           *)
(***************************************************************************)
\* String(x), as a template literal and Array.prototype.join apply it
RECURSIVE ToStr(_)
RECURSIVE Join(_, _)
Join(a, sep) ==
  IF a = <<>> THEN ""
  ELSE LET el == a[1]
           first == IF el.t \in {"undefined", "null"} THEN "" ELSE ToStr(el)
       IN IF Len(a) = 1 THEN first ELSE first \o sep \o Join(Tail(a), sep)

ToStr(x) ==
  CASE x.t = "string" -> x.v
    [] x.t = "number" -> ToString(x.v)
    [] x.t = "boolean" -> (IF x.v THEN "true" ELSE "false")
    [] x.t = "null" -> "null"
    [] x.t = "undefined" -> "undefined"
    [] x.t = "array" -> Join(x.v, ",")
    [] x.t = "object" -> "[object Object]"

\* new Date(submitted_at).toLocaleString()
toLocaleString(t) == "date " \o ToString(t.sec)

\* the cell of one field in the row of one response
AnswerCell(answers, field) ==
  LET answer == Get(answers, Get(field, "id").v)
  IN IF IsArray(answer) THEN Join(answer.v, ", ")
     ELSE ToStr(Or(answer, Str("")))

CsvHeaders(formData) ==
  <<"Submitted At", "Name", "Email">>
  \o [i \in 1..Len(formData.v) |-> ToStr(Get(formData.v[i], "label"))]

CsvRow(formData, response) ==
  LET answers == JSONparse(response.answers)
  IN <<toLocaleString(response.submitted_at),
       ToStr(Or(response.submitter_name, Str(""))),
       ToStr(Or(response.submitter_email, Str("")))>>
     \o [i \in 1..Len(formData.v) |-> AnswerCell(answers, formData.v[i])]

RECURSIVE JoinStrings(_, _)
JoinStrings(a, sep) ==
  IF a = <<>> THEN ""
  ELSE IF Len(a) = 1 THEN a[1]
  ELSE a[1] \o sep \o JoinStrings(Tail(a), sep)

\* [headers, ...rows].map(row => row.map(cell => `"${cell}"`).join(',')).join('\n')
CsvContent(form, rows) ==
  LET formData == JSONparse(form.fields)
      table == <<CsvHeaders(formData)>>
               \o [i \in 1..Len(rows) |-> CsvRow(formData, rows[i])]
      line(row) == JoinStrings([i \in 1..Len(row) |-> "\"" \o row[i] \o "\""], ",")
  IN JoinStrings([i \in 1..Len(table) |-> line(table[i])], "\n")

\* callback of SELECT * FROM forms WHERE id = ?
GetExport(c, id, err) ==
  /\ CanServe
  /\ IF err
     THEN /\ handleError("export", id, "Internal server error")
          /\ UNCHANGED reqs
     ELSE IF SelectForm(id) = Undef   \* !form
     THEN /\ Reply("export", id, 404, [error |-> "Form not found"])
          /\ UNCHANGED reqs
     ELSE /\ FreeSlot(c)
          /\ reqs' = [reqs EXCEPT ![c] = [op |-> "export", id |-> id, form |-> SelectForm(id)]]
          /\ Silent
  /\ UNCHANGED <<storeVars, now, nextUuid, crashed, builder, viewer, app, formList, api>>

\* formData.map(f => f.label) throws a TypeError at a field that is null; the
\* exception leaves the callback of the store uncaught
ThrowsTypeError(form) ==
  LET formData == JSONparse(form.fields)
  IN \E i \in 1..Len(formData.v) : formData.v[i].t \in {"null", "undefined"}

\* callback of SELECT * FROM responses WHERE form_id = ? ORDER BY submitted_at DESC
GetExportResponses(c, err) ==
  /\ CanServe /\ reqs[c].op = "export"
  /\ LET r == reqs[c] IN
     IF err
     THEN /\ handleError("export", r.id, "Internal server error")
          /\ UNCHANGED crashed
     ELSE IF ThrowsTypeError(r.form)
     THEN /\ crashed' = TRUE
          /\ Silent
     ELSE /\ Reply("export", r.id, 200,
                   [csv |-> CsvContent(r.form, ResponsesOf(r.id)),
                    filename |-> ToStr(r.form.title) \o "_responses.csv"])
          /\ UNCHANGED crashed
  /\ Finish(c)
  /\ UNCHANGED <<storeVars, now, nextUuid, builder, viewer, app, formList, api>>

(***************************************************************************)
(* FormBuilder (components/FormBuilder.tsx): the component's state, its    *)
(* event handlers, and the save through useAsyncAction.  Text the user     *)
(* types is a sequence of characters.                                      *)
(***************************************************************************)
Whitespace == {" ", "\t", "\n"}

RECURSIVE trimStart(_)
trimStart(s) == IF s # <<>> /\ Head(s) \in Whitespace THEN trimStart(Tail(s)) ELSE s

RECURSIVE trimEnd(_)
trimEnd(s) ==
  IF s # <<>> /\ s[Len(s)] \in Whitespace THEN trimEnd(SubSeq(s, 1, Len(s) - 1)) ELSE s

\* trim that leaves the text as typed
trimNone(s) == s

\* String.prototype.trim
trim(s) == trimEnd(trimStart(s))

\* the string value of typed text
StrOf(chars) == Str(JoinStrings(chars, ""))

\* what the user types into the title and description inputs
Titles == {<<>>, <<" ">>, <<"T">>, <<" ", "T", " ">>}
Descriptions == {<<>>, <<"e", " ">>}

\* the form the builder edits: the form prop, as GET /api/forms returned it
EditedTitle == <<"B">>
EditedDescription == <<"d">>
EditedFields == <<FieldName, FieldTags>>
EditedBody ==
  [title |-> StrOf(EditedTitle), description |-> StrOf(EditedDescription),
   fields |-> Arr(EditedFields)]

NoCall == [op |-> "none"]

\* useState(form?.title || ''), useState(form?.description || ''),
\* useState(form?.fields || []) and the state of useAsyncAction; form is the
\* id of the form prop, 0 without one
Mounted(form, title, description, fields) ==
  [mounted |-> TRUE, form |-> form, title |-> title, description |-> description,
   fields |-> fields, saving |-> FALSE, saveError |-> Null, call |-> NoCall,
   alert |-> "", saved |-> <<>>, clock |-> 0]

\* the inputs and buttons are disabled while saving
Editable == builder.mounted /\ ~builder.saving

\* Date.now() advances
BuilderTick ==
  /\ builder.mounted /\ builder.clock < MaxClock
  /\ builder' = [builder EXCEPT !.clock = @ + 1]
  /\ UNCHANGED <<serverVars, viewer, app, formList, api>>

setTitle(text) ==
  /\ Editable
  /\ builder' = [builder EXCEPT !.title = text]
  /\ UNCHANGED <<serverVars, viewer, app, formList, api>>

setDescription(text) ==
  /\ Editable
  /\ builder' = [builder EXCEPT !.description = text]
  /\ UNCHANGED <<serverVars, viewer, app, formList, api>>

\* the field addField makes at clock value t
NewField(t) ==
  Obj(<< <<"id", Str("field_" \o ToString(t))>>, <<"type", Str("text")>>,
         <<"label", Str("New Field")>>, <<"required", Bool(FALSE)>>,
         <<"placeholder", Str("")>> >>)

addField ==
  /\ Editable /\ Len(builder.fields) < MaxFields
  /\ builder' = [builder EXCEPT !.fields = Append(@, NewField(builder.clock))]
  /\ UNCHANGED <<serverVars, viewer, app, formList, api>>

\* { ...field, ...updates }
Spread(field, updates) ==
  LET keys == {field.v[i][1] : i \in 1..Len(field.v)}
      updated == {updates.v[i][1] : i \in 1..Len(updates.v)}
  IN Obj([i \in 1..Len(field.v) |->
            IF field.v[i][1] \in updated
            THEN <<field.v[i][1], Get(updates, field.v[i][1])>>
            ELSE field.v[i]]
         \o SelectSeq(updates.v, LAMBDA p : p[1] \notin keys))

\* the updates the inputs of a field send
FieldUpdates ==
  { Obj(<< <<"label", Str("L")>> >>), Obj(<< <<"required", Bool(TRUE)>> >>) }

updateField(index, updates) ==
  /\ Editable /\ index \in 1..Len(builder.fields)
  /\ builder' = [builder EXCEPT !.fields =
                   [i \in 1..Len(@) |-> IF i = index THEN Spread(@[i], updates) ELSE @[i]]]
  /\ UNCHANGED <<serverVars, viewer, app, formList, api>>

removeField(index) ==
  /\ Editable /\ index \in 1..Len(builder.fields)
  /\ builder' = [builder EXCEPT !.fields =
                   SubSeq(@, 1, index - 1) \o SubSeq(@, index + 1, Len(@))]
  /\ UNCHANGED <<serverVars, viewer, app, formList, api>>

\* handleSave up to the request saveForm sends: execute sets loading and
\* clears error, the action calls apiService.updateForm or createForm
handleSave ==
  /\ Editable
  /\ IF trim(builder.title) = <<>>   \* !title.trim()
     THEN builder' = [builder EXCEPT !.alert = "Please enter a form title"]
     ELSE IF Len(builder.fields) = 0
     THEN builder' = [builder EXCEPT !.alert = "Please add at least one field"]
     ELSE builder' =
            [builder EXCEPT
               !.alert = "", !.saving = TRUE, !.saveError = Null,
               !.call = [op |-> IF builder.form # 0 THEN "updateForm" ELSE "createForm",
                         id |-> builder.form,
                         body |-> [title |-> StrOf(trim(builder.title)),
                                   description |-> StrOf(trim(builder.description)),
                                   fields |-> Arr(builder.fields)]]]
  /\ UNCHANGED <<serverVars, viewer, app, formList, api>>

\* the response of the server reaches execute: the result goes to onSave,
\* which leaves the builder; a failure sets error and is swallowed by
\* handleSave's catch
SaveSettled ==
  /\ builder.mounted /\ builder.call # NoCall
  /\ res.op = builder.call.op
  /\ IF res.status \in {200, 201}
     THEN builder' = [builder EXCEPT !.saving = FALSE, !.call = NoCall,
                                     !.saved = Append(@, res.body), !.mounted = FALSE]
     ELSE builder' = [builder EXCEPT !.saving = FALSE, !.call = NoCall,
                                     !.saveError = Str(res.body.error)]
  /\ res' = NoResponse
  /\ UNCHANGED <<storeVars, now, nextUuid, reqs, crashed, viewer, app, formList, api>>

(***************************************************************************)
(* FormViewer (components/FormViewer.tsx): the answers typed into a form,  *)
(* the validation of handleSubmit and the submission through               *)
(* useAsyncAction.                                                         *)
(***************************************************************************)
\* the form prop: a required text field, a required checkbox group and an
\* optional text field
FieldTagsRequired == Spread(FieldTags, Obj(<< <<"required", Bool(TRUE)>> >>))
FieldNote ==
  Obj(<< <<"id", Str("note")>>, <<"type", Str("text")>>, <<"label", Str("Note")>>,
         <<"required", Bool(FALSE)>>, <<"placeholder", Str("")>> >>)
ViewedFields == <<FieldName, FieldTagsRequired, FieldNote>>
ViewedBody == [title |-> Str("V"), description |-> Str(""), fields |-> Arr(ViewedFields)]

\* e.target.value of the text inputs, and the options of the checkbox group
TextFieldIds == {"name", "note"}
TextValues == {Str(""), Str("x")}
CheckboxFieldIds == {"tags"}
Options == {Str("a"), Str("b")}

\* what the user types into the name and email inputs
SubmitterNames == {<<>>, <<" ">>, <<"A">>}
SubmitterEmails == {<<>>, <<"e">>}

\* useState({}), useState(''), useState(''), useState(false) and the state
\* of useAsyncAction; form is the id of the form prop
Opened(mode) ==
  [mounted |-> TRUE, mode |-> mode, form |-> 1, fields |-> ViewedFields,
   formData |-> Obj(<<>>), submitterName |-> <<>>, submitterEmail |-> <<>>,
   isSubmitted |-> FALSE, submitting |-> FALSE, submitError |-> Null,
   call |-> NoCall, alert |-> ""]

\* the form is rendered and not being submitted
Shown == viewer.mounted /\ ~viewer.isSubmitted /\ ~viewer.submitting

\* the inputs are disabled in preview mode and while submitting
Fillable == Shown /\ viewer.mode = "fill"

\* setFormData(prev => ({ ...prev, [fieldId]: value }))
handleFieldChange(fieldId, value) ==
  /\ Fillable
  /\ viewer' = [viewer EXCEPT !.formData = Spread(@, Obj(<< <<fieldId, value>> >>))]
  /\ UNCHANGED <<serverVars, builder, app, formList, api>>

\* const value = formData[field.id] || '';
\* const selectedValues = Array.isArray(value) ? value : [];
selectedValues(fieldId) ==
  LET value == Or(Get(viewer.formData, fieldId), Str(""))
  IN IF IsArray(value) THEN value.v ELSE <<>>

\* the onChange of the checkbox of an option: the click inverts checked
onChangeCheckbox(fieldId, option) ==
  LET checked == \A i \in 1..Len(selectedValues(fieldId)) : selectedValues(fieldId)[i] # option
      newValue == IF checked
                  THEN Append(selectedValues(fieldId), option)
                  ELSE SelectSeq(selectedValues(fieldId), LAMBDA v : v # option)
  IN handleFieldChange(fieldId, Arr(newValue))

setSubmitterName(text) ==
  /\ Fillable
  /\ viewer' = [viewer EXCEPT !.submitterName = text]
  /\ UNCHANGED <<serverVars, builder, app, formList, api>>

setSubmitterEmail(text) ==
  /\ Fillable
  /\ viewer' = [viewer EXCEPT !.submitterEmail = text]
  /\ UNCHANGED <<serverVars, builder, app, formList, api>>

\* field.required && (!formData[field.id] || formData[field.id] === '')
RequiredMissing(field, formData) ==
  /\ Truthy(Get(field, "required"))
  /\ \/ ~Truthy(Get(formData, Get(field, "id").v))
     \/ Get(formData, Get(field, "id").v) = Str("")

\* the labels of the required fields without an answer
missingFields ==
  LET missing == SelectSeq(viewer.fields, LAMBDA field : RequiredMissing(field, viewer.formData))
  IN [i \in 1..Len(missing) |-> Get(missing[i], "label").v]

\* text.trim() || undefined
TrimmedOrUndefined(text) == Or(StrOf(trim(text)), Undef)

\* handleSubmit up to the request submitResponse sends
handleSubmit ==
  /\ Shown
  /\ IF viewer.mode = "preview"
     THEN UNCHANGED viewer
     ELSE IF Len(missingFields) > 0
     THEN viewer' = [viewer EXCEPT !.alert =
                       "Please fill in the following required fields: "
                         \o JoinStrings(missingFields, ", ")]
     ELSE viewer' =
            [viewer EXCEPT
               !.alert = "", !.submitting = TRUE, !.submitError = Null,
               !.call = [op |-> "submitResponse", id |-> viewer.form,
                         body |-> [answers |-> viewer.formData,
                                   submitterName |-> TrimmedOrUndefined(viewer.submitterName),
                                   submitterEmail |-> TrimmedOrUndefined(viewer.submitterEmail)]]]
  /\ UNCHANGED <<serverVars, builder, app, formList, api>>

\* a failed submission that also empties the form
SubmitSettledCleared ==
  /\ viewer.mounted /\ viewer.call # NoCall
  /\ res.op = viewer.call.op
  /\ IF res.status = 201
     THEN viewer' = [viewer EXCEPT !.submitting = FALSE, !.call = NoCall,
                                   !.isSubmitted = TRUE]
     ELSE viewer' = [viewer EXCEPT !.submitting = FALSE, !.call = NoCall,
                                   !.formData = Obj(<<>>),
                                   !.submitError = Str(res.body.error)]
  /\ res' = NoResponse
  /\ UNCHANGED <<storeVars, now, nextUuid, reqs, crashed, builder, app, formList, api>>

\* the response of the server reaches execute: after a result
\* setIsSubmitted(true); a failure sets error and is swallowed by
\* handleSubmit's catch
SubmitSettled ==
  /\ viewer.mounted /\ viewer.call # NoCall
  /\ res.op = viewer.call.op
  /\ IF res.status = 201
     THEN viewer' = [viewer EXCEPT !.submitting = FALSE, !.call = NoCall,
                                   !.isSubmitted = TRUE]
     ELSE viewer' = [viewer EXCEPT !.submitting = FALSE, !.call = NoCall,
                                   !.submitError = Str(res.body.error)]
  /\ res' = NoResponse
  /\ UNCHANGED <<storeVars, now, nextUuid, reqs, crashed, builder, app, formList, api>>

(***************************************************************************)
(* useApi (hooks/useApi.ts): the state of a hook and the calls of          *)
(* fetchData whose promise is pending.                                     *)
(***************************************************************************)
\* the operation of the server behind the apiCall of each hook
HookOps ==
  [getForms |-> "listForms", getAllResponses |-> "listAllResponses",
   getDashboardStats |-> "stats"]

\* useState({ data: null, loading: true, error: null }); fetches holds the
\* pending calls of fetchData by the number of their start, latest what the
\* call started last has left in the state once it has settled
NewHook ==
  [data |-> Null, loading |-> TRUE, error |-> Null,
   started |-> 0, fetches |-> {}, latest |-> Null]

\* fetchData up to the await:
\* setState(prev => ({ ...prev, loading: true, error: null }))
StartFetch(hook) ==
  [hook EXCEPT !.loading = TRUE, !.error = Null, !.started = @ + 1,
               !.fetches = @ \cup {[n |-> hook.started + 1, reply |-> NoResponse]},
               !.latest = Null]

\* the calls whose request the server has not answered
Waiting(hook) == {f \in hook.fetches : f.reply = NoResponse}

\* the server's response is on its way to one of the waiting calls
Respond(h) ==
  /\ h \in DOMAIN api /\ res.op = HookOps[h]
  /\ \E f \in Waiting(api[h]) :
       api' = [api EXCEPT ![h].fetches = (@ \ {f}) \cup {[f EXCEPT !.reply = res]}]
  /\ res' = NoResponse
  /\ UNCHANGED <<storeVars, now, nextUuid, reqs, crashed, builder, viewer, app, formList>>

\* what the await of apiCall() makes of a response: the data, or
\* error.response?.data?.error
Outcome(reply) ==
  IF reply.status = 200
  THEN [data |-> reply.body, error |-> Null]
  ELSE [data |-> Null, error |-> Str(reply.body.error)]

\* fetchData after the await: setState({ data, loading: false, error: null })
\* or setState({ data: null, loading: false, error })
Settled(hook, f) ==
  [hook EXCEPT !.data = Outcome(f.reply).data, !.loading = FALSE,
               !.error = Outcome(f.reply).error,
               !.fetches = @ \ {f},
               !.latest = IF f.n = hook.started THEN Outcome(f.reply) ELSE @]

\* the promise of call n of hook h settles
Settle(h, n) ==
  /\ h \in DOMAIN api
  /\ \E f \in api[h].fetches \ Waiting(api[h]) :
       /\ f.n = n
       /\ api' = [api EXCEPT ![h] = Settled(@, f)]
  /\ UNCHANGED <<serverVars, builder, viewer, app, formList>>

(***************************************************************************)
(* App (App.tsx): the current view, the selected form and the parameters   *)
(* of the URL; FormList (components/FormList.tsx): the deletion of a form. *)
(***************************************************************************)
NoUrl == [form |-> 0, mode |-> ""]

\* window.location.search: nothing, ?form=<id> or ?form=<id>&mode=fill
Urls == {NoUrl, [form |-> 1, mode |-> ""], [form |-> 1, mode |-> "fill"]}

\* useState('forms'), useState(null)
Started(url) ==
  [mounted |-> TRUE, currentView |-> "forms", selectedForm |-> Null, url |-> url]

\* the state of FormList's deleteForm action (deleting, call) and of its
\* exportResponses action: useState(false), useState(null), the executions
\* whose promise is pending, and how the execution that finished last ended
Listing ==
  [mounted |-> TRUE, deleting |-> FALSE, call |-> NoCall,
   loading |-> FALSE, error |-> Null, started |-> 0, executions |-> {},
   finished |-> "none"]

\* forms.find(f => f.id === formId)
Find(items, formId) ==
  LET idx == {i \in 1..Len(items) : items[i].id = formId}
  IN IF idx = {} THEN Undef ELSE items[CHOOSE i \in idx : \A j \in idx : i <= j]

\* the effect on [forms]: if (formId && forms) { const form = forms.find(...);
\* if (form) { setSelectedForm(form); setCurrentView(...) } }
UrlEffect(a, data) ==
  IF a.url.form # 0 /\ data # Null /\ Find(data.items, a.url.form) # Undef
  THEN [a EXCEPT !.selectedForm = Find(data.items, a.url.form),
                 !.currentView = IF a.url.mode = "fill" THEN "fill-form" ELSE "view-form"]
  ELSE a

\* a call of the forms hook settles and the effect on [forms] runs
SettleForms(n) ==
  /\ app.mounted
  /\ \E f \in api.getForms.fetches \ Waiting(api.getForms) :
       /\ f.n = n
       /\ api' = [api EXCEPT !.getForms = Settled(@, f)]
       /\ app' = UrlEffect(app, Outcome(f.reply).data)
  /\ UNCHANGED <<serverVars, builder, viewer, formList>>

\* the views of the navigation bar
NavItems == {"forms", "dashboard", "create-form"}

handleViewChange(view) ==
  /\ app.mounted
  /\ app' = [app EXCEPT !.currentView = view, !.selectedForm = Null, !.url = NoUrl]
  /\ UNCHANGED <<serverVars, builder, viewer, formList, api>>

\* handleBack that leaves the selected form
handleBackKeepsForm ==
  /\ app.mounted
  /\ \/ app.currentView = "create-form"
     \/ app.currentView \in {"edit-form", "view-form", "fill-form"} /\ app.selectedForm # Null
  /\ app' = [app EXCEPT !.currentView = "forms", !.url = NoUrl]
  /\ UNCHANGED <<serverVars, builder, viewer, formList, api>>

\* onCancel of the builder and onBack of the viewer
handleBack ==
  /\ app.mounted
  /\ \/ app.currentView = "create-form"
     \/ app.currentView \in {"edit-form", "view-form", "fill-form"} /\ app.selectedForm # Null
  /\ app' = [app EXCEPT !.currentView = "forms", !.selectedForm = Null, !.url = NoUrl]
  /\ UNCHANGED <<serverVars, builder, viewer, formList, api>>

\* FormList is rendered: not while the forms load or after they failed
ListShown ==
  /\ app.mounted /\ app.currentView = "forms"
  /\ ~api.getForms.loading /\ api.getForms.error = Null

\* the forms prop of FormList: forms || []
ListedForms == IF api.getForms.data = Null THEN <<>> ELSE api.getForms.data.items

handleEditForm(form) ==
  /\ ListShown
  /\ app' = [app EXCEPT !.selectedForm = form, !.currentView = "edit-form"]
  /\ UNCHANGED <<serverVars, builder, viewer, formList, api>>

\* the eye button of FormList, and the button of a form on the dashboard
handleViewForm(form) ==
  /\ app.mounted
  /\ \/ ListShown /\ \E i \in 1..Len(ListedForms) : ListedForms[i] = form
     \/ app.currentView = "dashboard" /\ \E i \in 1..Len(listForms) : listForms[i] = form
  /\ app' = [app EXCEPT !.selectedForm = form, !.currentView = "view-form"]
  /\ UNCHANGED <<serverVars, builder, viewer, formList, api>>

\* onSave of the builder, after the server answered its save
handleFormSave ==
  /\ app.mounted
  /\ res.op \in {"createForm", "updateForm"} /\ res.status \in {200, 201}
  /\ api' = [api EXCEPT !.getForms = StartFetch(@)]
  /\ app' = [app EXCEPT !.currentView = "forms", !.selectedForm = Null]
  /\ res' = NoResponse
  /\ UNCHANGED <<storeVars, now, nextUuid, reqs, crashed, builder, viewer, formList>>

\* the Retry button of the error message: onRetry={refetchForms}
RetryForms ==
  /\ app.mounted /\ app.currentView = "forms"
  /\ ~api.getForms.loading /\ api.getForms.error # Null
  /\ api.getForms.started < MaxFetches
  /\ api' = [api EXCEPT !.getForms = StartFetch(@)]
  /\ UNCHANGED <<serverVars, builder, viewer, app, formList>>

\* handleDelete up to the request deleteForm sends, window.confirm answered
\* with OK
handleDelete(form) ==
  /\ ListShown /\ ~formList.deleting /\ formList.call = NoCall
  /\ api.getForms.started < MaxFetches
  /\ formList' = [formList EXCEPT !.deleting = TRUE,
                                  !.call = [op |-> "deleteForm", id |-> form.id]]
  /\ UNCHANGED <<serverVars, builder, viewer, app, api>>

\* the response to the deletion reaches handleDelete: onDeleteForm(form.id),
\* which is handleDeleteForm, and onRefresh() each call refetchForms
DeleteSettled ==
  /\ formList.call.op = "deleteForm" /\ res.op = "deleteForm"
  /\ IF res.status = 200
     THEN /\ formList' = [formList EXCEPT !.deleting = FALSE, !.call = NoCall]
          /\ api' = [api EXCEPT !.getForms = StartFetch(StartFetch(@))]
     ELSE /\ formList' = [formList EXCEPT !.deleting = FALSE, !.call = NoCall]
          /\ UNCHANGED api   \* and an alert
  /\ res' = NoResponse
  /\ UNCHANGED <<storeVars, now, nextUuid, reqs, crashed, builder, viewer, app>>

(***************************************************************************)
(* FormList: the download of a form's responses through useAsyncAction.    *)
(***************************************************************************)
\* the forms hook after the list has loaded
LoadedHook ==
  [data |-> [items |-> listForms], loading |-> FALSE, error |-> Null,
   started |-> 1, fetches |-> {}, latest |-> [data |-> [items |-> listForms], error |-> Null]]

\* the executions whose request the server has not answered
WaitingExecutions == {e \in formList.executions : e.reply = NoResponse}

\* handleDownload up to the request: execute does setLoading(true),
\* setError(null) and calls apiService.exportFormResponses(form.id)
handleDownload(form) ==
  /\ ListShown /\ formList.started < MaxExecutions
  /\ formList' = [formList EXCEPT
                    !.loading = TRUE, !.error = Null, !.started = @ + 1,
                    !.executions = @ \cup {[n |-> formList.started + 1, id |-> form.id,
                                            reply |-> NoResponse]}]
  /\ UNCHANGED <<serverVars, builder, viewer, app, api>>

\* the server's response is on its way to a waiting execution for that form
RespondExport ==
  /\ res.op = "export"
  /\ \E e \in WaitingExecutions :
       /\ e.id = res.id
       /\ formList' = [formList EXCEPT
                         !.executions = (@ \ {e}) \cup {[e EXCEPT !.reply = res]}]
  /\ res' = NoResponse
  /\ UNCHANGED <<storeVars, now, nextUuid, reqs, crashed, builder, viewer, app, api>>

\* error.response?.data?.error || error.message: the data of the response is
\* a Blob
ExportErrorMessage(reply) ==
  Str("Request failed with status code " \o ToString(reply.status))

\* execute after the await: setLoading(false) after a result;
\* setError(errorMessage), setLoading(false) and the alert of handleDownload
\* after a failure
ExportSettled(n) ==
  /\ \E e \in formList.executions \ WaitingExecutions :
       /\ e.n = n
       /\ formList' =
            [formList EXCEPT
               !.loading = FALSE,
               !.error = IF e.reply.status = 200 THEN @ ELSE ExportErrorMessage(e.reply),
               !.executions = @ \ {e},
               !.finished = IF e.reply.status = 200 THEN "succeeded" ELSE "failed"]
  /\ UNCHANGED <<serverVars, builder, viewer, app, api>>

(***************************************************************************)
(* Dashboard (components/Dashboard.tsx): three useApi hooks and the Retry  *)
(* button of its error view.                                               *)
(***************************************************************************)
DashboardHooks == {"getDashboardStats", "getAllResponses", "getForms"}

\* if (statsLoading || responsesLoading || formsLoading) spinner
DashboardLoading == \E h \in DashboardHooks : api[h].loading

\* if (statsError || responsesError || formsError) error message
DashboardError == \E h \in DashboardHooks : api[h].error # Null

\* onRetry: refetchStats(); refetchResponses();
DashboardRetry ==
  /\ app.mounted /\ app.currentView = "dashboard"
  /\ ~DashboardLoading /\ DashboardError
  /\ api.getDashboardStats.started < MaxFetches
  /\ api' = [api EXCEPT !.getDashboardStats = StartFetch(@),
                        !.getAllResponses = StartFetch(@)]
  /\ UNCHANGED <<serverVars, builder, viewer, app, formList>>

(***************************************************************************)
(* Specifications.                                                         *)
(***************************************************************************)
\* forms and responses: the steps of the handlers when the store fails as
\* errs allows
Serve(errs) ==
  \/ \E err \in errs : GetForms(err)
  \/ \E id \in Ids, err \in errs : GetForm(id, err)
  \/ \E body \in FormBodies, err \in errs : PostForms(body, err)
  \/ \E id \in Ids, body \in FormBodies, err \in errs : PutForm(id, body, err)
  \/ \E id \in Ids, err \in errs : DeleteForm(id, err)
  \/ \E id \in Ids, err \in errs : GetFormResponses(id, err)
  \/ \E err \in errs : GetResponses(err)
  \/ \E c \in Slots, id \in Ids, body \in ResponseBodies, err \in errs :
       PostResponse(c, id, body, err)
  \/ \E c \in Slots, err \in errs : PostResponseRun(c, err)
  \/ \E c \in Slots, id \in Ids, err \in errs : GetExport(c, id, err)
  \/ \E c \in Slots, err \in errs : GetExportResponses(c, err)

\* the dashboard statistics
ServeStats(errs) ==
  \/ \E c \in Slots : GetStats(c)
  \/ \E c \in Slots, q \in Queries, err \in errs : GetStatsQuery(c, q, err)

\* the store answers every statement
Next == Tick \/ Flush \/ Serve({FALSE})

Spec == Init /\ [][Next]_vars

(***************************************************************************)
(* Concurrent updates: a store that holds forms, and writers whose PUT     *)
(* requests are in flight together; the UPDATEs run in any order.          *)
(***************************************************************************)
Writers == 1..MaxWriters

InitUpdate ==
  /\ \E b1 \in GoodFormBodies, b2 \in GoodFormBodies :
       forms = <<NewFormRow(1, b1, 0), NewFormRow(2, b2, 0)>>
  /\ responses = <<>>
  /\ foreignKeys \in BOOLEAN
  /\ now = 0
  /\ nextUuid = 3
  /\ reqs = [w \in Writers |-> Idle]
  /\ res = NoResponse
  /\ crashed = FALSE
  /\ builder = Unmounted
  /\ viewer = Unmounted /\ app = Unmounted /\ formList = Unmounted /\ api = NoHooks

NextUpdate ==
  \/ Tick
  \/ Flush
  \/ \E w \in Writers, id \in Ids, body \in FormBodies : PutFormIssue(w, id, body)
  \/ \E w \in Writers : PutFormApply(w, FALSE)

SpecUpdate == InitUpdate /\ [][NextUpdate]_vars

(***************************************************************************)
(* Dashboard statistics over stores of every size up to the bounds.        *)
(***************************************************************************)
\* a store with nf forms and nr responses spread over the forms; without
\* forms the responses are those of a form deleted on a connection that
\* does not enforce foreign keys
InitStats ==
  /\ \E nf \in 0..MaxStatForms, nr \in 0..MaxStatResponses :
       /\ forms = [i \in 1..nf |-> NewFormRow(i, CHOOSE b \in GoodFormBodies : b.title = Str("B"), 0)]
       /\ responses =
            [j \in 1..nr |->
               NewResponseRow([responseId |-> MaxStatForms + 1 + j,
                               formId |-> IF nf = 0 THEN MaxStatForms + 1
                                          ELSE ((j - 1) % nf) + 1,
                               answersJson |-> JSONstringify(AnswersAlice),
                               submitterName |-> Str("Al"),
                               submitterEmail |-> Undef], 0)]
       /\ foreignKeys \in IF nf = 0 /\ nr > 0 THEN {FALSE} ELSE BOOLEAN
       /\ nextUuid = MaxStatForms + nr + 2
  /\ now = 0
  /\ reqs = [c \in Slots |-> Idle]
  /\ res = NoResponse
  /\ crashed = FALSE
  /\ builder = Unmounted
  /\ viewer = Unmounted /\ app = Unmounted /\ formList = Unmounted /\ api = NoHooks

NextStats == Flush \/ ServeStats({FALSE})

SpecStats == InitStats /\ [][NextStats]_vars

(***************************************************************************)
(* Dashboard statistics requested by several clients at a time, over a     *)
(* store that may fail any of the queries.                                 *)
(***************************************************************************)
StatRequests == 1..MaxStatRequests

InitStatsFaults ==
  /\ \E nf \in 0..1, nr \in 0..1 :
       /\ forms = [i \in 1..nf |-> NewFormRow(i, EditedBody, 0)]
       /\ responses =
            [j \in 1..(IF nf = 0 THEN 0 ELSE nr) |->
               NewResponseRow([responseId |-> 2, formId |-> 1,
                               answersJson |-> JSONstringify(AnswersAlice),
                               submitterName |-> Str("Al"),
                               submitterEmail |-> Undef], 0)]
  /\ foreignKeys \in BOOLEAN
  /\ nextUuid = 3
  /\ now = 0
  /\ reqs = [c \in StatRequests |-> Idle]
  /\ res = NoResponse
  /\ crashed = FALSE
  /\ builder = Unmounted
  /\ viewer = Unmounted /\ app = Unmounted /\ formList = Unmounted /\ api = NoHooks

NextStatsFaults ==
  \/ Flush
  \/ \E c \in StatRequests : GetStats(c)
  \/ \E c \in StatRequests, q \in Queries, err \in BOOLEAN : GetStatsQuery(c, q, err)

SpecStatsFaults == InitStatsFaults /\ [][NextStatsFaults]_vars

(***************************************************************************)
(* Forms, submissions and exports with request bodies of every JSON shape, *)
(* over a store that may fail any statement.                               *)
(***************************************************************************)
NextValues ==
  \/ Flush
  \/ \E body \in ValueFormBodies, err \in BOOLEAN : PostForms(body, err)
  \/ \E c \in Slots, id \in Ids, body \in ValueResponseBodies, err \in BOOLEAN :
       PostResponse(c, id, body, err)
  \/ \E c \in Slots, err \in BOOLEAN : PostResponseRun(c, err)
  \/ \E id \in Ids, err \in BOOLEAN : GetFormResponses(id, err)
  \/ \E c \in Slots, id \in Ids, err \in BOOLEAN : GetExport(c, id, err)
  \/ \E c \in Slots, err \in BOOLEAN : GetExportResponses(c, err)

SpecValues == Init /\ [][NextValues]_vars

(***************************************************************************)
(* A FormBuilder for a new form, or for a stored form, and the server that *)
(* answers its save.                                                       *)
(***************************************************************************)
InitBuilder ==
  /\ \/ /\ forms = <<>>
        /\ nextUuid = 1
        /\ builder = Mounted(0, <<>>, <<>>, <<>>)
     \/ /\ forms = <<NewFormRow(1, EditedBody, 0)>>
        /\ nextUuid = 2
        /\ builder = Mounted(1, EditedTitle, EditedDescription, EditedFields)
  /\ responses = <<>>
  /\ foreignKeys \in BOOLEAN
  /\ now = 0
  /\ reqs = [c \in Slots |-> Idle]
  /\ res = NoResponse
  /\ crashed = FALSE
  /\ viewer = Unmounted /\ app = Unmounted /\ formList = Unmounted /\ api = NoHooks

NextBuilder ==
  \/ BuilderTick
  \/ \E text \in Titles : setTitle(text)
  \/ \E text \in Descriptions : setDescription(text)
  \/ addField
  \/ \E index \in 1..MaxFields, updates \in FieldUpdates : updateField(index, updates)
  \/ \E index \in 1..MaxFields : removeField(index)
  \/ handleSave
  \/ \E err \in BOOLEAN :
       builder.mounted /\ builder.call.op = "createForm" /\ PostForms(builder.call.body, err)
  \/ \E err \in BOOLEAN :
       /\ builder.mounted /\ builder.call.op = "updateForm"
       /\ PutForm(builder.call.id, builder.call.body, err)
  \/ SaveSettled

SpecBuilder == InitBuilder /\ [][NextBuilder]_vars

(***************************************************************************)
(* The form viewer, opened on a stored form in preview or in fill mode,    *)
(* with the server behind it.                                              *)
(***************************************************************************)
InitViewer ==
  /\ forms = <<NewFormRow(1, ViewedBody, 0)>>
  /\ responses = <<>>
  /\ foreignKeys \in BOOLEAN
  /\ nextUuid = 2
  /\ now = 0
  /\ reqs = [c \in Slots |-> Idle]
  /\ res = NoResponse
  /\ crashed = FALSE
  /\ viewer \in {Opened("preview"), Opened("fill")}
  /\ builder = Unmounted /\ app = Unmounted /\ formList = Unmounted /\ api = NoHooks

NextViewer ==
  \/ \E fieldId \in TextFieldIds, value \in TextValues : handleFieldChange(fieldId, value)
  \/ \E fieldId \in CheckboxFieldIds, option \in Options : onChangeCheckbox(fieldId, option)
  \/ \E text \in SubmitterNames : setSubmitterName(text)
  \/ \E text \in SubmitterEmails : setSubmitterEmail(text)
  \/ handleSubmit
  \/ \E c \in Slots, err \in BOOLEAN :
       /\ viewer.mounted /\ viewer.call.op = "submitResponse"
       /\ \A d \in Slots : reqs[d] = Idle
       /\ PostResponse(c, viewer.call.id, viewer.call.body, err)
  \/ \E c \in Slots, err \in BOOLEAN : viewer.mounted /\ PostResponseRun(c, err)
  \/ SubmitSettled

SpecViewer == InitViewer /\ [][NextViewer]_vars

\* the page is the form builder or the form viewer
InitPages == InitBuilder \/ InitViewer

NextPages == NextBuilder \/ NextViewer

SpecPages == InitPages /\ [][NextPages]_vars

(***************************************************************************)
(* The App with its forms hook and the form list, over a store of one      *)
(* form; the builder it renders saves the form B.                          *)
(***************************************************************************)
InitApp ==
  /\ forms = <<NewFormRow(1, EditedBody, 0)>>
  /\ responses = <<>>
  /\ foreignKeys = FALSE   \* no PRAGMA foreign_keys, and no response is stored
  /\ nextUuid = 2
  /\ now = 0
  /\ reqs = [c \in Slots |-> Idle]
  /\ res = NoResponse
  /\ crashed = FALSE
  /\ \E url \in Urls : app = Started(url)
  /\ formList = Listing
  /\ api = [getForms |-> StartFetch(NewHook)]
  /\ builder = Unmounted /\ viewer = Unmounted

NextApp ==
  \/ \E view \in NavItems : handleViewChange(view)
  \/ handleBack
  \/ \E i \in 1..MaxUuid : i <= Len(ListedForms) /\ handleEditForm(ListedForms[i])
  \/ \E i \in 1..MaxUuid : i <= Len(ListedForms) /\ handleViewForm(ListedForms[i])
  \/ \E i \in 1..MaxUuid : i <= Len(listForms) /\ handleViewForm(listForms[i])
  \/ \E i \in 1..MaxUuid : i <= Len(ListedForms) /\ handleDelete(ListedForms[i])
  \/ \E err \in BOOLEAN : formList.call.op = "deleteForm" /\ DeleteForm(formList.call.id, err)
  \/ DeleteSettled
  \/ \E err \in BOOLEAN :
       /\ app.currentView = "create-form" /\ api.getForms.started < MaxFetches
       /\ PostForms(EditedBody, err)
  \/ \E err \in BOOLEAN :
       /\ app.currentView = "edit-form" /\ api.getForms.started < MaxFetches
       /\ PutForm(app.selectedForm.id, EditedBody, err)
  \/ handleFormSave
  \/ res.op \in {"createForm", "updateForm"} /\ res.status \notin {200, 201} /\ Flush
  \/ RetryForms
  \/ \E err \in BOOLEAN : Waiting(api.getForms) # {} /\ GetForms(err)
  \/ Respond("getForms")
  \/ \E n \in 1..(MaxFetches + 1) : SettleForms(n)

SpecApp == InitApp /\ [][NextApp]_vars

(***************************************************************************)
(* The form list after the forms have loaded, and its download button.     *)
(***************************************************************************)
InitDownload ==
  /\ \E nr \in 0..1 :
       /\ forms = <<NewFormRow(1, EditedBody, 0)>>
       /\ responses =
            [j \in 1..nr |->
               NewResponseRow([responseId |-> 2, formId |-> 1,
                               answersJson |-> JSONstringify(AnswersAlice),
                               submitterName |-> Str("Al"),
                               submitterEmail |-> Undef], 0)]
  /\ foreignKeys \in BOOLEAN
  /\ nextUuid = 3
  /\ now = 0
  /\ reqs = [c \in Slots |-> Idle]
  /\ res = NoResponse
  /\ crashed = FALSE
  /\ app = Started(NoUrl)
  /\ formList = Listing
  /\ api = [getForms |-> LoadedHook]
  /\ builder = Unmounted /\ viewer = Unmounted

NextDownload ==
  \/ \E i \in 1..MaxUuid : i <= Len(ListedForms) /\ handleDownload(ListedForms[i])
  \/ \E c \in Slots, e \in WaitingExecutions, err \in BOOLEAN :
       (\A d \in Slots : reqs[d] = Idle) /\ GetExport(c, e.id, err)
  \/ \E c \in Slots, err \in BOOLEAN : GetExportResponses(c, err)
  \/ RespondExport
  \/ \E n \in 1..MaxExecutions : ExportSettled(n)

SpecDownload == InitDownload /\ [][NextDownload]_vars

(***************************************************************************)
(* The dashboard over a store that may fail any call.  What the server has *)
(* to do, and what is on its way to the browser, is done in the end.       *)
(***************************************************************************)
InitDashboard ==
  /\ \E nr \in 0..1 :
       /\ forms = <<NewFormRow(1, EditedBody, 0)>>
       /\ responses =
            [j \in 1..nr |->
               NewResponseRow([responseId |-> 2, formId |-> 1,
                               answersJson |-> JSONstringify(AnswersAlice),
                               submitterName |-> Str("Al"),
                               submitterEmail |-> Undef], 0)]
  /\ foreignKeys \in BOOLEAN
  /\ nextUuid = 3
  /\ now = 0
  /\ reqs = [c \in Slots |-> Idle]
  /\ res = NoResponse
  /\ crashed = FALSE
  /\ app = [Started(NoUrl) EXCEPT !.currentView = "dashboard"]
  /\ api = [h \in DashboardHooks |-> StartFetch(NewHook)]
  /\ formList = Unmounted /\ builder = Unmounted /\ viewer = Unmounted

ServeDashboard ==
  \/ \E err \in BOOLEAN : Waiting(api.getForms) # {} /\ GetForms(err)
  \/ \E err \in BOOLEAN : Waiting(api.getAllResponses) # {} /\ GetResponses(err)
  \/ \E c \in Slots :
       /\ Waiting(api.getDashboardStats) # {} /\ \A d \in Slots : reqs[d] = Idle
       /\ GetStats(c)
  \/ \E c \in Slots, q \in Queries, err \in BOOLEAN : GetStatsQuery(c, q, err)

Deliver ==
  \/ \E h \in DashboardHooks : Respond(h)
  \/ \E h \in DashboardHooks, n \in 1..MaxFetches : Settle(h, n)

NextDashboard == ServeDashboard \/ Deliver \/ DashboardRetry

SpecDashboard ==
  InitDashboard /\ [][NextDashboard]_vars /\ WF_vars(ServeDashboard) /\ WF_vars(Deliver)

(***************************************************************************)
(* Properties.                                                             *)
(***************************************************************************)
FormIds == {forms[i].id : i \in 1..Len(forms)}

\* what getForm and listForms answer when the table forms holds the rows fs
HasForm(fs, id) == \E i \in 1..Len(fs) : fs[i].id = id
GetFormOf(fs, id) == FormJson(fs[CHOOSE i \in 1..Len(fs) : fs[i].id = id])
ListFormsOf(fs) == MapSeq(OrderByDesc(fs, "created_at"), FormJson)

\* the three columns an update replaces
Content(form) == <<form.title, form.description, form.fields>>
\* a request body as the content it asks for: description empty when absent
Payload(body) ==
  <<body.title, IF body.description = Undef THEN Str("") ELSE body.description, body.fields>>

\* C1: right after a successful deleteForm(id), listResponsesForForm(id) is
\* the empty sequence.
C1_DeletedFormHasNoResponses ==
  (res.op = "deleteForm" /\ res.status = 200) => listResponsesForForm(res.id) = <<>>

C3_ReferentialIntegrity ==
  \A i \in 1..Len(responses) : FormExists(responses[i].form_id)

\* C4: after createForm with fields F, getForm of the created id and the
\* entry of that id in listForms hold fields equal to F.
C4_FieldsRoundTrip ==
  [][\A body \in FormBodies :
       (PostForms(body, FALSE) /\ res'.status = 201) =>
         \E id \in {nextUuid}, after \in {forms'} :
           /\ HasForm(after, id)
           /\ GetFormOf(after, id).fields = body.fields
           /\ \E i \in 1..Len(after) :
                /\ ListFormsOf(after)[i].id = id
                /\ ListFormsOf(after)[i].fields = body.fields]_vars

C4_Witness ==
  /\ res.op = "createForm" /\ res.status = 201
  /\ res.body.fields = Arr(<<FieldName, FieldTags>>)
  /\ FormExists(res.id) /\ getForm(res.id).fields = Arr(<<FieldName, FieldTags>>)

\* C5: createForm without a title (absent or empty) is answered 400 and
\* leaves the store as it is, whatever the fields; createForm with a title
\* and the empty fields sequence is answered 201 and the form is stored.
C5_CreateValidation ==
  [][\A body \in FormBodies :
       PostForms(body, FALSE) =>
         /\ (body.title \in {Undef, Str("")}) =>
              res'.status = 400 /\ forms' = forms /\ responses' = responses
         /\ (body.title \notin {Undef, Str("")} /\ body.fields = Arr(<<>>)) =>
              \E id \in {nextUuid}, after \in {forms'} :
                /\ res'.status = 201 /\ res'.id = id
                /\ id \notin FormIds /\ HasForm(after, id)
                /\ Content(GetFormOf(after, id)) = Payload(body)]_vars

C5_Witness ==
  /\ res.op = "createForm" /\ res.status = 400
  /\ \E i \in 1..Len(forms) : JSONparse(forms[i].fields) = Arr(<<>>)

\* C6: after a successful updateForm(id, title, description, fields),
\* getForm(id) holds the given title, description (empty when absent) and
\* fields; every other form and every response is as before.
C6_UpdateReplacesOnlyThatForm ==
  [][\A id \in Ids, body \in FormBodies :
       (PutForm(id, body, FALSE) /\ res'.status = 200) =>
         \E after \in {forms'} :
           /\ HasForm(after, id)
           /\ Content(GetFormOf(after, id)) = Payload(body)
           /\ Len(after) = Len(forms)
           /\ \A j \in FormIds \ {id} :
                HasForm(after, j) /\ GetFormOf(after, j) = getForm(j)
           /\ responses' = responses]_vars

C6_Witness ==
  /\ res.op = "updateForm" /\ res.status = 200
  /\ FormExists(res.id) /\ getForm(res.id).title = res.body.title
  /\ \E j \in FormIds : j # res.id /\ getForm(j).title # res.body.title

\* C7: as long as a form is stored, getForm and listForms return the id and
\* the createdAt it was created with; an update changes no form's id.
C7_IdAndCreatedAtFixed ==
  [][\E after \in {forms'}, list \in {ListFormsOf(forms')} :
       /\ \A id \in FormIds :
            HasForm(after, id) =>
              \E before \in {getForm(id)}, form \in {GetFormOf(after, id)} :
                /\ form.id = id
                /\ form.createdAt = before.createdAt
                /\ \A i \in 1..Len(list) :
                     list[i].id = id => list[i].createdAt = before.createdAt
       /\ (res'.op = "updateForm") =>
            /\ Len(after) = Len(forms)
            /\ \A id \in FormIds : HasForm(after, id)]_vars

C7_Witness ==
  /\ res.op = "updateForm" /\ res.status = 200
  /\ FormExists(res.id) /\ getForm(res.id).createdAt.sec < now

\* C8: getForm, updateForm with a valid body, deleteForm and the export of
\* an id that matches no stored form are answered 404 and leave the store
\* as it is; a deleted id matches no stored form.
C8_MissingFormIsNotFound ==
  [][\A id \in Ids :
       /\ ~FormExists(id) =>
            /\ GetForm(id, FALSE) => res'.status = 404 /\ UNCHANGED <<forms, responses>>
            /\ \A body \in GoodFormBodies :
                 PutForm(id, body, FALSE) =>
                   res'.status = 404 /\ UNCHANGED <<forms, responses>>
            /\ DeleteForm(id, FALSE) => res'.status = 404 /\ UNCHANGED <<forms, responses>>
            /\ \A c \in Slots :
                 GetExport(c, id, FALSE) =>
                   res'.status = 404 /\ UNCHANGED <<forms, responses, reqs>>
       /\ (DeleteForm(id, FALSE) /\ res'.status = 200) => ~HasForm(forms', id)]_vars

\* a second deleteForm of a form whose responses are still stored
C8_Witness ==
  /\ res.op = "deleteForm" /\ res.status = 404
  /\ \E i \in 1..Len(responses) : responses[i].form_id = res.id

\* C9: when the UPDATE of one of several updateForm requests in flight is
\* applied, the stored form holds the whole payload of that request; in
\* every state each stored form holds the whole payload of one request.
C9_NoMixture ==
  \A i \in 1..Len(forms) :
    \E b \in GoodFormBodies : Content(FormJson(forms[i])) = Payload(b)

C9_LastWriteWins ==
  /\ []C9_NoMixture
  /\ [][\A w \in Writers :
          (PutFormApply(w, FALSE) /\ FormExists(reqs[w].id)) =>
            \E id \in {reqs[w].id}, b \in {reqs[w].body}, after \in {forms'} :
              /\ res'.status = 200
              /\ HasForm(after, id)
              /\ Content(GetFormOf(after, id)) = Payload(b)
              /\ \A v \in Writers \ {w} : reqs'[v] = reqs[v]]_vars

\* an update applied while another one for the same form, with another
\* payload, is in flight
C9_Witness ==
  /\ res.op = "updateForm" /\ res.status = 200
  /\ \E w \in Writers :
       /\ reqs[w].op = "updateForm" /\ reqs[w].id = res.id
       /\ Payload(reqs[w].body) # Content(getForm(res.id))

\* the decimal numeral of n / 10
Decimal1(n) == ToString(n \div 10) \o "." \o ToString(n % 10)

\* C10: the stats object holds avgResponsesPerForm "0" when totalForms is 0,
\* otherwise the numeral with one decimal nearest to
\* totalResponses / totalForms; 2 forms and 5 responses give "2.5".
C10_AvgResponsesPerForm ==
  (res.op = "stats" /\ res.status = 200) =>
    LET F == res.body.totalForms
        R == res.body.totalResponses
        avg == res.body.avgResponsesPerForm
    IN /\ F = 0 => avg = "0"
       /\ F > 0 => \E n \in 0..(10 * R + 1) :
                     /\ avg = Decimal1(n)
                     /\ 20 * R - 2 * n * F <= F
                     /\ 2 * n * F - 20 * R <= F
       /\ (F = 2 /\ R = 5) => avg = "2.5"

C10_Witness ==
  /\ res.op = "stats" /\ res.status = 200
  /\ res.body.totalForms = 2 /\ res.body.totalResponses = 5
  /\ res.body.avgResponsesPerForm = "2.5"

\* positions of the rows with a given id, in insertion (rowid) order
FormPos(id) == CHOOSE i \in 1..Len(forms) : forms[i].id = id
ResponsePos(id) == CHOOSE i \in 1..Len(responses) : responses[i].id = id
ResponseIds == {responses[i].id : i \in 1..Len(responses)}

\* C11: recentResponses of a stats answer holds the 5 stored responses with
\* the latest submittedAt (all stored responses when fewer than 5 are
\* stored), each once, latest first.
C11_RecentResponses ==
  (res.op = "stats" /\ res.status = 200) =>
    LET recent == res.body.recentResponses
        listed == {recent[i].id : i \in 1..Len(recent)}
    IN /\ Len(recent) <= RecentLimit
       /\ Len(recent) = IF Len(responses) < RecentLimit THEN Len(responses) ELSE RecentLimit
       /\ listed \subseteq ResponseIds
       /\ Cardinality(listed) = Len(recent)
       /\ \A i, k \in 1..Len(recent) :
            i < k => recent[i].submittedAt.sec >= recent[k].submittedAt.sec
       /\ \A j \in 1..Len(responses) :
            responses[j].id \notin listed =>
              \A i \in 1..Len(recent) :
                recent[i].submittedAt.sec >= responses[j].submitted_at.sec

\* items of a listing are in order: a later timestamp first, and of two items
\* with the same timestamp the one inserted first
NewestFirst(items, time, Pos(_)) ==
  \A i, k \in 1..Len(items) :
    i < k =>
      \/ items[i][time].sec > items[k][time].sec
      \/ /\ items[i][time].sec = items[k][time].sec
         /\ Pos(items[i].id) < Pos(items[k].id)

C13_ExportCsv ==
  [][\A c \in Slots :
       (GetExportResponses(c, FALSE) /\ ~ThrowsTypeError(reqs[c].form)) =>
         LET form == reqs[c].form
             formData == JSONparse(form.fields)
             rows == ResponsesOf(form.id)
         IN /\ res'.status = 200
            /\ res'.body.csv = CsvContent(form, rows)
            /\ CsvHeaders(formData) =
                 <<"Submitted At", "Name", "Email">>
                 \o [k \in 1..Len(formData.v) |-> Get(formData.v[k], "label").v]
            /\ Len(rows) = Cardinality({j \in 1..Len(responses) : responses[j].form_id = form.id})
            /\ NewestFirst(rows, "submitted_at", ResponsePos)
            /\ \A i \in 1..Len(rows), k \in 1..Len(formData.v) :
                 LET answer == Get(JSONparse(rows[i].answers), Get(formData.v[k], "id").v)
                     cell == CsvRow(formData, rows[i])[3 + k]
                 IN /\ IsArray(answer) => cell = Join(answer.v, ", ")
                    /\ answer.t \in {"string", "number", "boolean"} => cell = ToStr(answer)
                    /\ answer = Undef => cell = ""]_vars

\* C14: a submitResponse whose answers are missing or are no mapping (null, a
\* string, a number, a boolean, a sequence) is answered 400, issues no INSERT
\* and stores nothing.
C14_InvalidAnswersRejected ==
  [][\A c \in Slots, id \in Ids, body \in ValueResponseBodies, err \in BOOLEAN :
       (PostResponse(c, id, body, err) /\ body.answers.t # "object") =>
         /\ res'.op = "submitResponse" /\ res'.status = 400
         /\ responses' = responses
         /\ reqs' = reqs]_vars

\* C18: no handler ends by an uncaught exception, which would leave its
\* request without an answer; an answer that reports a failure has status
\* 400, 404 or 500 and carries nothing but an error message.
C18_FailuresAreAnswered ==
  /\ ~crashed
  /\ res.status \in {0, 200, 201, 400, 404, 500}
  /\ res.status \in {400, 404, 500} => DOMAIN res.body = {"error"}
  /\ res.status = 404 => res.body.error = "Form not found"

\* what listResponsesForForm answers when the table responses holds the rows rs
ListResponsesOf(rs, id) ==
  MapSeq(OrderByDesc(SelectSeq(rs, LAMBDA r : r.form_id = id), "submitted_at"), ResponseJson)

\* C15: a submitResponse with a mapping as answers, whatever its keys, passes
\* the handler's checks when its form is stored; when the form is still
\* stored at the INSERT the answer is 201 and listResponsesForForm then
\* holds the response, once, with the answers as submitted.
C15_AnyAnswersMappingAccepted ==
  [][\A c \in Slots :
       /\ \A id \in Ids, body \in ResponseBodies :
            (PostResponse(c, id, body, FALSE) /\ body.answers.t = "object" /\ FormExists(id)) =>
              /\ res' = NoResponse
              /\ reqs'[c].op = "submitResponse"
              /\ reqs'[c].formId = id /\ reqs'[c].answers = body.answers
       /\ (PostResponseRun(c, FALSE) /\ FormExists(reqs[c].formId)) =>
            \E r \in {reqs[c]}, items \in {ListResponsesOf(responses', reqs[c].formId)} :
              /\ res'.status = 201 /\ res'.body.id = r.responseId
              /\ res'.body.answers = r.answers
              /\ Cardinality({i \in 1..Len(items) : items[i].id = r.responseId}) = 1
              /\ \A i \in 1..Len(items) :
                   items[i].id = r.responseId =>
                     items[i].answers = r.answers /\ items[i].formId = r.formId]_vars

\* answers without the required field "name" of the form, stored and listed
C15_Witness ==
  /\ res.op = "submitResponse" /\ res.status = 201
  /\ res.body.answers = AnswersOther
  /\ FormExists(res.id) /\ getForm(res.id).fields = Arr(<<FieldName, FieldTags>>)
  /\ \E i \in 1..Len(listResponsesForForm(res.id)) :
       /\ listResponsesForForm(res.id)[i].id = res.body.id
       /\ listResponsesForForm(res.id)[i].answers = AnswersOther

\* C16: every step leaves each stored response as it is, or removes it
\* together with the form it references; no step stores another row under
\* the id of a stored response.
C16_ResponsesImmutable ==
  [][/\ \A i \in 1..Len(responses) :
          \/ \E j \in 1..Len(responses') : responses'[j] = responses[i]
          \/ /\ FormExists(responses[i].form_id)
             /\ ~HasForm(forms', responses[i].form_id)
     /\ \A j \in 1..Len(responses') :
          responses'[j].id \in ResponseIds =>
            \E i \in 1..Len(responses) : responses[i] = responses'[j]]_vars

\* a form deleted with its responses while the response of another form stays
C16_Witness ==
  /\ res.op = "deleteForm" /\ res.status = 200
  /\ foreignKeys
  /\ Len(responses) = 1 /\ FormExists(responses[1].form_id)

\* C17: listAllResponses answers with every stored response, each once, and
\* with the title its form has in the store.
C17_AllResponsesWithTitle ==
  (res.op = "listAllResponses" /\ res.status = 200) =>
    LET items == res.body.items
    IN /\ Len(items) = Len(responses)
       /\ \A j \in 1..Len(responses) :
            Cardinality({i \in 1..Len(items) : items[i].id = responses[j].id}) = 1
       /\ \A i \in 1..Len(items) :
            /\ FormExists(items[i].formId)
            /\ items[i].formTitle = FormRow(items[i].formId).title

\* the ids of a sequence of fields are pairwise distinct
DistinctIds(fs) ==
  \A i, k \in 1..Len(fs) : i # k => Get(fs[i], "id") # Get(fs[k], "id")

\* C19: the fields of the form being built have pairwise distinct ids, and
\* so have the fields of every form the builder has sent to the server and
\* of every stored form.
C19_FieldIdsUnique ==
  /\ builder.mounted => DistinctIds(builder.fields)
  /\ (builder.mounted /\ builder.call # NoCall) => DistinctIds(builder.call.body.fields.v)
  /\ \A i \in 1..Len(forms) : DistinctIds(JSONparse(forms[i].fields).v)

\* C20: the builder sends a request only from Save with a title that holds
\* a character other than whitespace and with at least one field, to
\* updateForm for a form prop and to createForm without one; a Save without
\* such a title or without fields sends nothing and changes nothing but the
\* alert; onSave runs, and the store changes, only for a request sent.
C20_SaveOnlyWhenValid ==
  [][/\ (builder'.mounted /\ builder.mounted /\ builder'.call # builder.call
         /\ builder'.call # NoCall) =>
          /\ \E i \in 1..Len(builder.title) : builder.title[i] \notin Whitespace
          /\ Len(builder.fields) >= 1
          /\ builder'.call.op = IF builder.form = 0 THEN "createForm" ELSE "updateForm"
          /\ builder'.call.body.fields = Arr(builder.fields)
     /\ (handleSave /\ (Len(builder.fields) = 0
                        \/ \A i \in 1..Len(builder.title) : builder.title[i] \in Whitespace)) =>
          /\ builder' = [builder EXCEPT !.alert = builder'.alert]
          /\ builder'.alert # ""
          /\ UNCHANGED serverVars
     /\ (builder.mounted /\ ~builder'.mounted) =>
          /\ builder.call # NoCall /\ res.status \in {200, 201}
          /\ Len(builder'.saved) = 1
     /\ (builder.mounted /\ builder'.mounted) => builder'.saved = <<>>
     /\ (forms' # forms) => builder.mounted /\ builder.call # NoCall]_vars

\* Save pressed with fields and a title of blanks: alert, no request
C20_Witness ==
  /\ builder.mounted /\ builder.alert = "Please enter a form title"
  /\ builder.title = <<" ">> /\ Len(builder.fields) >= 1
  /\ builder.call = NoCall /\ ~builder.saving /\ forms = <<>>

\* C24: a stats request is never answered twice; when the last of its three
\* callbacks has run it has been answered once, with 200 or 500; and the
\* process does not die while a stats request has no answer.
C24_StatsAnsweredOnce ==
  /\ [](\A c \in DOMAIN reqs :
          reqs[c].op = "stats" =>
            /\ reqs[c].sent <= 1
            /\ crashed => reqs[c].sent = 1)
  /\ [][\A c \in DOMAIN reqs :
          (reqs[c].op = "stats" /\ reqs'[c] = Idle) =>
            /\ reqs[c].sent + (IF res' = NoResponse THEN 0 ELSE 1) = 1
            /\ res' # NoResponse => res'.op = "stats" /\ res'.status \in {200, 500}]_vars

\* C25: the callback of a stats query answers 200 exactly when it is the
\* third to succeed; the answer holds totalForms, totalResponses,
\* recentResponses and avgResponsesPerForm, the counts being those of the
\* store, and avgResponsesPerForm is the numeral with one decimal nearest to
\* the quotient of the counts of that answer ("0" without forms).
C25_StatsComplete ==
  [][\A c \in DOMAIN reqs, q \in Queries :
       GetStatsQuery(c, q, FALSE) =>
         /\ (res'.status = 200) <=> (reqs[c].completed = 2 /\ reqs[c].pending = {q})
         /\ (res'.status = 200) =>
              LET F == res'.body.totalForms
                  R == res'.body.totalResponses
                  avg == res'.body.avgResponsesPerForm
              IN /\ DOMAIN res'.body =
                      {"totalForms", "totalResponses", "recentResponses", "avgResponsesPerForm"}
                 /\ F = Len(forms) /\ R = Len(responses)
                 /\ Len(res'.body.recentResponses) <= RecentLimit
                 /\ F = 0 => avg = "0"
                 /\ F > 0 => \E n \in 0..(10 * R + 1) :
                               /\ avg = Decimal1(n)
                               /\ 20 * R - 2 * n * F <= F
                               /\ 2 * n * F - 20 * R <= F]_vars

\* three forms and five responses: the quotient differs from its inverse
C25_Witness ==
  /\ res.op = "stats" /\ res.status = 200
  /\ res.body.totalForms = 3 /\ res.body.totalResponses = 5
  /\ res.body.avgResponsesPerForm = "1.7"
  /\ Len(res.body.recentResponses) = 5

\* C26: with no request in flight, the totalResponses of a stats answer is
\* the number of responses listAllResponses returns and its totalForms the
\* number of forms listForms returns.
C26_StatsMatchListings ==
  (res.op = "stats" /\ res.status = 200 /\ \A c \in DOMAIN reqs : reqs[c] = Idle) =>
    /\ res.body.totalResponses = Len(listAllResponses)
    /\ res.body.totalForms = Len(listForms)

\* C27: the body of a successful createForm or updateForm holds the id,
\* title, description, fields and createdAt that getForm of that id returns
\* right after it.
C27_ReturnedFormIsStoredForm ==
  (res.op \in {"createForm", "updateForm"} /\ res.status \in {200, 201}) =>
    /\ FormExists(res.id)
    /\ res.body.id = getForm(res.id).id
    /\ res.body.title = getForm(res.id).title
    /\ res.body.description = getForm(res.id).description
    /\ res.body.fields = getForm(res.id).fields
    /\ "createdAt" \in DOMAIN res.body
    /\ res.body.createdAt = getForm(res.id).createdAt

\* a required field has an answer: an option of a checkbox group is selected,
\* a text is not empty
Answered(field, formData) ==
  LET answer == Get(formData, Get(field, "id").v)
  IN IF Get(field, "type") = Str("checkbox")
     THEN IsArray(answer) /\ Len(answer.v) > 0
     ELSE answer.t = "string" /\ answer.v # ""

\* C21: a submission is on its way only in fill mode and only with an answer
\* to every required field of the form (for a required checkbox group: with
\* an option selected); in preview mode no call is made and no response is
\* stored.
C21_SubmitOnlyWhenComplete ==
  /\ (viewer.mounted /\ viewer.call # NoCall) =>
       /\ viewer.mode = "fill"
       /\ viewer.call.op = "submitResponse"
       /\ \A i \in 1..Len(viewer.fields) :
            Truthy(Get(viewer.fields[i], "required")) =>
              Answered(viewer.fields[i], viewer.call.body.answers)
  /\ (viewer.mounted /\ viewer.mode = "preview") =>
       viewer.call = NoCall /\ responses = <<>> /\ ~viewer.isSubmitted

\* C22: when the call of a save or of a submission fails, the builder keeps
\* its title, description and fields and hands nothing to onSave, the viewer
\* keeps its answers, name and email, which are the answers it sent, and
\* does not show the submitted page, and the error message is set.
C22_FailureKeepsInput ==
  [][/\ (builder.mounted /\ builder.call # NoCall /\ builder'.call = NoCall
           /\ res.status \notin {200, 201}) =>
          /\ builder'.mounted
          /\ builder'.title = builder.title
          /\ builder'.description = builder.description
          /\ builder'.fields = builder.fields
          /\ builder.call.body.fields = Arr(builder.fields)
          /\ builder'.saved = builder.saved
          /\ builder'.saveError # Null /\ ~builder'.saving
     /\ (viewer.mounted /\ viewer.call # NoCall /\ viewer'.call = NoCall
           /\ res.status # 201) =>
          /\ viewer'.formData = viewer.formData
          /\ viewer.call.body.answers = viewer.formData
          /\ viewer'.submitterName = viewer.submitterName
          /\ viewer'.submitterEmail = viewer.submitterEmail
          /\ ~viewer'.isSubmitted
          /\ viewer'.submitError # Null /\ ~viewer'.submitting]_vars

\* a submission failed on the server and the viewer shows its error over the
\* answers
C22_Witness ==
  /\ viewer.mounted /\ viewer.call = NoCall /\ ~viewer.isSubmitted
  /\ viewer.submitError = Str("Failed to submit response")
  /\ Get(viewer.formData, "name") = Str("x")
  /\ viewer.submitterName = <<"A">>

\* C28: the App holds a selected form exactly in the views edit-form,
\* view-form and fill-form.
C28_SelectedFormMatchesView ==
  app.mounted =>
    (app.selectedForm # Null <=> app.currentView \in {"edit-form", "view-form", "fill-form"})

\* the URL opened the form to fill, after the user had been elsewhere
C28_Witness ==
  /\ app.mounted /\ app.currentView = "fill-form" /\ app.selectedForm # Null
  /\ api.getForms.started >= 2

\* C29: once every call of fetchData of a hook has settled, the data and the
\* error of the hook are those of the call started last.
C29_LatestFetchWins ==
  \A h \in DOMAIN api :
    (api[h].started > 0 /\ api[h].fetches = {}) =>
      /\ api[h].data = api[h].latest.data
      /\ api[h].error = api[h].latest.error

\* C23: when Retry has been pressed, the calls it made have been answered
\* without a failure and no call is pending, the dashboard is out of its
\* error view and has the data of its three calls.
C23_RetryLeavesErrorView ==
  ( /\ app.mounted /\ app.currentView = "dashboard"
    /\ api.getDashboardStats.started >= 2
    /\ \A h \in DashboardHooks : api[h].fetches = {}
    /\ api.getDashboardStats.latest.error = Null
    /\ api.getAllResponses.latest.error = Null )
  => /\ ~DashboardLoading /\ ~DashboardError
     /\ \A h \in DashboardHooks : api[h].data # Null

\* C30: the export action is loading exactly while an execution of it is
\* pending, and once none is pending its error is set exactly when the
\* execution that finished last failed.
C30_LoadingWhileInFlight ==
  formList.mounted =>
    /\ formList.loading <=> formList.executions # {}
    /\ (formList.executions = {} /\ formList.started > 0) =>
         (formList.error # Null <=> formList.finished = "failed")

====
